---- MODULE Spec2Model ----
(***************************************************************************)
(* A model of two parts of millet:                                         *)
(*   - the string interner, crates/core/src/intern.rs                      *)
(*     (StrRef, StrStoreMut, StrStore);                                    *)
(*   - the signature matcher, crates/core/src/statics/ck/sig_match.rs      *)
(*     (ck), with the helpers it calls.                                    *)
(* InternSpec is the interner's state machine, MatchSpec the matcher's.    *)
(***************************************************************************)
EXTENDS Integers, Sequences, FiniteSets, TLC

VARIABLES
  phase,    \* interner: "mut" (a StrStoreMut), "sealed" (a StrStore), "panicked", "idle"
  store,    \* StrStoreMut.store : HashMap<String, StrRef>
  next,     \* StrStoreMut.next : usize
  table,    \* StrStore.store : Vec<String>
  call,     \* the last call on the interner: its name, text and handle
  first     \* history: text -> the StrRef its first insertion returned

internVars == <<phase, store, next, table, call, first>>

VARIABLES
  pc,        \* matcher: position inside ck
  st_tys,    \* st.tys : Sym -> its type function
  loc,       \* ck's loc argument
  env,       \* ck's env argument (the candidate)
  sig,       \* ck's sig argument; sig.ty_names in its iteration order
  i,         \* how many bound symbols the for loop has taken
  ty_rzn,    \* the local ty_rzn
  enriched,  \* the arguments of each call of enrich::ck, in order
  result     \* what ck returned

matchVars == <<pc, st_tys, loc, env, sig, i, ty_rzn, enriched, result>>

vars == <<internVars, matchVars>>

(***************************************************************************)
(* Finite maps (HashMap).                                                  *)
(***************************************************************************)
EmptyMap == [k \in {} |-> 0]

MapInsert(m, k, v) == [x \in (DOMAIN m) \cup {k} |-> IF x = k THEN v ELSE m[x]]

MapFilterKeys(m, keep) == [x \in (DOMAIN m) \cap keep |-> m[x]]

(***************************************************************************)
(* intern.rs                                                               *)
(***************************************************************************)
STAR == 0
INT == 1
REAL == 2
WORD == 3
CHAR == 4
STRING_ == 5
LIST == 6
NIL == 7
CONS == 8
TRUE_ == 9
FALSE_ == 10

\* The texts offered to the interner beyond the built-in ones.
MaxUserTexts == 3
UserPool == <<"", "x", "y", "Int", "nil ">>
UserTexts == {UserPool[k] : k \in 1..MaxUserTexts}

BuiltinTexts ==
  {"*", "int", "real", "word", "char", "string", "list", "nil", "::", "true", "false"}

\* The texts the insert actions are called with: the user texts, and the first,
\* a middle and the last of the built-in ones.
Texts == UserTexts \cup {"*", "nil", "false"}

NewStoreShifted ==
  LET m0 == MapInsert(EmptyMap, "*", STAR + 1)
      m1 == MapInsert(m0, "int", INT + 1)
      m2 == MapInsert(m1, "real", REAL + 1)
      m3 == MapInsert(m2, "word", WORD + 1)
      m4 == MapInsert(m3, "char", CHAR + 1)
      m5 == MapInsert(m4, "string", STRING_ + 1)
      m6 == MapInsert(m5, "list", LIST + 1)
      m7 == MapInsert(m6, "nil", NIL + 1)
      m8 == MapInsert(m7, "::", CONS + 1)
      m9 == MapInsert(m8, "true", TRUE_ + 1)
      m10 == MapInsert(m9, "false", FALSE_ + 1)
  IN  [store |-> m10, next |-> Cardinality(DOMAIN m10)]

\* StrStoreMut::new
NewStore ==
  LET m0 == MapInsert(EmptyMap, "*", STAR)
      m1 == MapInsert(m0, "int", INT)
      m2 == MapInsert(m1, "real", REAL)
      m3 == MapInsert(m2, "word", WORD)
      m4 == MapInsert(m3, "char", CHAR)
      m5 == MapInsert(m4, "string", STRING_)
      m6 == MapInsert(m5, "list", LIST)
      m7 == MapInsert(m6, "nil", NIL)
      m8 == MapInsert(m7, "::", CONS)
      m9 == MapInsert(m8, "true", TRUE_)
      m10 == MapInsert(m9, "false", FALSE_)
  IN  [store |-> m10, next |-> Cardinality(DOMAIN m10)]

insert_str_always_fresh(m, n, s) ==
  [store |-> MapInsert(m, s, n), next |-> n + 1, ret |-> n]

insert_str_bump_first(m, n, s) ==
  IF s \in DOMAIN m
    THEN [store |-> m, next |-> n, ret |-> m[s]]
    ELSE [store |-> MapInsert(m, s, n + 1), next |-> n + 1, ret |-> n + 1]

insert_str_no_bump(m, n, s) ==
  IF s \in DOMAIN m
    THEN [store |-> m, next |-> n, ret |-> m[s]]
    ELSE [store |-> MapInsert(m, s, n), next |-> n, ret |-> n]

\* StrStoreMut::insert_str, on store m and next n
insert_str(m, n, s) ==
  IF s \in DOMAIN m
    THEN [store |-> m, next |-> n, ret |-> m[s]]
    ELSE [store |-> MapInsert(m, s, n), next |-> n + 1, ret |-> n]

insert_string_stale_ret(m, n, s) ==
  IF s \in DOMAIN m
    THEN [store |-> m, next |-> n, ret |-> m[s]]
    ELSE [store |-> MapInsert(m, s, n), next |-> n + 1, ret |-> n + 1]

\* StrStoreMut::insert_string, on store m and next n
insert_string(m, n, s) ==
  IF s \in DOMAIN m
    THEN [store |-> m, next |-> n, ret |-> m[s]]
    ELSE [store |-> MapInsert(m, s, n), next |-> n + 1, ret |-> n]

\* finish: the entries (s, id) of the map whose id.0 is k
FinishWriters(m, k) == {s \in DOMAIN m : m[s] = k}

\* finish: some store[id.0] = s is out of bounds
FinishPanics(m) == \E s \in DOMAIN m : m[s] >= Cardinality(DOMAIN m)

\* finish: what index k of the vector can hold after the loop, the map being
\* iterated in an arbitrary order: the placeholder, or the last s written there
FinishSlot(m, k) == IF FinishWriters(m, k) = {} THEN {""} ELSE FinishWriters(m, k)

RECURSIVE FinishPrefixes(_, _)
FinishPrefixes(m, n) ==
  IF n = 0 THEN {<<>>}
  ELSE {Append(t, s) : t \in FinishPrefixes(m, n - 1), s \in FinishSlot(m, n - 1)}

\* StrStoreMut::finish: the vectors it can build
FinishTables(m) == FinishPrefixes(m, Cardinality(DOMAIN m))

\* StrStore::get is an index into the vector
GetPanics(t, h) == h >= Len(t)

StrStoreGet(t, h) == t[h + 1]

NoCall == [op |-> "none", s |-> "", h |-> 0]

Remember(s, h) == IF s \in DOMAIN first THEN first ELSE MapInsert(first, s, h)

InsertStr(s) ==
  /\ phase = "mut"
  /\ LET r == insert_str(store, next, s)
     IN  /\ store' = r.store
         /\ next' = r.next
         /\ call' = [op |-> "insert_str", s |-> s, h |-> r.ret]
         /\ first' = Remember(s, r.ret)
  /\ UNCHANGED <<phase, table>>

InsertString(s) ==
  /\ phase = "mut"
  /\ LET r == insert_string(store, next, s)
     IN  /\ store' = r.store
         /\ next' = r.next
         /\ call' = [op |-> "insert_string", s |-> s, h |-> r.ret]
         /\ first' = Remember(s, r.ret)
  /\ UNCHANGED <<phase, table>>

Finish ==
  /\ phase = "mut"
  /\ IF FinishPanics(store)
       THEN /\ phase' = "panicked"
            /\ table' = table
       ELSE /\ phase' = "sealed"
            /\ table' \in FinishTables(store)
  /\ call' = [op |-> "finish", s |-> "", h |-> 0]
  /\ UNCHANGED <<store, next, first>>

\* the handles a caller can hold: the constants and what insert returned
Issued == (STAR..FALSE_) \cup {first[s] : s \in DOMAIN first}

Get(h) ==
  /\ phase = "sealed"
  /\ IF GetPanics(table, h)
       THEN /\ phase' = "panicked"
            /\ call' = [op |-> "get", s |-> "", h |-> h]
       ELSE /\ phase' = phase
            /\ call' = [op |-> "get", s |-> StrStoreGet(table, h), h |-> h]
  /\ UNCHANGED <<store, next, table, first>>

InternInit ==
  /\ phase = "mut"
  /\ store = NewStore.store
  /\ next = NewStore.next
  /\ table = <<>>
  /\ call = NoCall
  /\ first = EmptyMap
  /\ pc = "idle"
  /\ st_tys = EmptyMap
  /\ loc = 0
  /\ env = EmptyMap
  /\ sig = EmptyMap
  /\ i = 0
  /\ ty_rzn = EmptyMap
  /\ enriched = <<>>
  /\ result = EmptyMap

InternNext ==
  \/ \E s \in Texts : InsertStr(s) /\ UNCHANGED matchVars
  \/ \E s \in Texts : InsertString(s) /\ UNCHANGED matchVars
  \/ Finish /\ UNCHANGED matchVars
  \/ \E h \in Issued : Get(h) /\ UNCHANGED matchVars

InternSpec == InternInit /\ [][InternNext]_vars

(***************************************************************************)
(* statics: symbols, types, environments, signatures.                      *)
(***************************************************************************)
Sym(name, id) == [name |-> name, id |-> id]

IntSym == Sym("int", 0)
StringSym == Sym("string", 1)
\* symbols bound by a signature; Bt and Bt2 carry the same name
Bt == Sym("t", 2)
Bt2 == Sym("t", 3)
Bu == Sym("u", 4)
\* symbols of the candidate: At, Au are abbreviations of int, Dt, Du datatypes
At == Sym("t", 5)
Dt == Sym("t", 6)
Au == Sym("u", 7)
Du == Sym("u", 8)

BoundSyms == {Bt, Bt2, Bu}
Syms == {IntSym, StringSym, At, Dt, Au, Du} \cup BoundSyms

\* Ty::Ctor with no arguments, and a generalized type variable
Ctor(sym) == [tag |-> "Ctor", sym |-> sym]
TyVar == [tag |-> "Var", sym |-> Sym("'a", 0)]

\* st.tys: every symbol's type function
Tys ==
  [s \in Syms |->
     [ty_fcn |-> IF s \in {At, Au} THEN Ctor(IntSym) ELSE Ctor(s)]]

MkEnv(strs, tys, vals) ==
  [str_env |-> strs, ty_env |-> [inner |-> tys], val_env |-> vals]

ValInfo(ty) == [ty_scheme |-> ty, id_status |-> "Val"]

\* the environments of the structures nested in an environment
Leaf0 == MkEnv(EmptyMap, EmptyMap, EmptyMap)
Leaf1 == MkEnv(EmptyMap, EmptyMap, MapInsert(EmptyMap, "f", ValInfo(Ctor(IntSym))))

\* the maps with keys among ks, the value of k taken from vals[k]
MapsOver(ks, vals) ==
  UNION {[sub -> UNION {vals[k] : k \in sub}] : sub \in SUBSET ks}

PartialMaps(ks, vals) ==
  {m \in MapsOver(ks, vals) : \A k \in DOMAIN m : m[k] \in vals[k]}

CandStrEnvs == PartialMaps({"S"}, [k \in {"S"} |-> {Leaf0, Leaf1}])
CandTyEnvs ==
  PartialMaps({"t", "u"}, [k \in {"t", "u"} |-> IF k = "t" THEN {At, Dt} ELSE {Au, Du}])
CandValEnvs ==
  PartialMaps({"f"}, [k \in {"f"} |-> {ValInfo(Ctor(IntSym)), ValInfo(Ctor(Dt))}])

SigStrEnvs == PartialMaps({"S"}, [k \in {"S"} |-> {Leaf0, Leaf1}])
SigTyEnvs ==
  PartialMaps({"t", "u"}, [k \in {"t", "u"} |-> IF k = "t" THEN {Bt} ELSE {Bu}])
SigValEnvs ==
  PartialMaps({"f"},
    [k \in {"f"} |-> {ValInfo(Ctor(IntSym)), ValInfo(Ctor(StringSym)),
                      ValInfo(Ctor(Bt)), ValInfo(TyVar)}])

\* the most symbols a signature binds
MaxBound == 2

\* sig.ty_names in the orders its iteration can take
RECURSIVE Orders(_, _)
Orders(S, n) ==
  IF n = 0 THEN {<<>>}
  ELSE {<<>>} \cup {<<b>> \o rest : b \in S, rest \in Orders(S, n - 1)}

NoRepeat(q) == \A j, k \in 1..Len(q) : q[j] = q[k] => j = k

TyNameOrders == {q \in Orders(BoundSyms, MaxBound) : NoRepeat(q)}

Locs == {1, 2}

Range(q) == {q[k] : k \in 1..Len(q)}

(***************************************************************************)
(* The helpers ck calls.                                                   *)
(***************************************************************************)
Ok(v) == [tag |-> "Ok", val |-> v]
Err(e) == [tag |-> "Err", err |-> e]

\* loc.wrap(x)
Wrap(l, x) == [loc |-> l, val |-> x]

\* StaticsError::Undefined(item, name), name a located StrRef
Undefined(item, name) == [kind |-> "Undefined", item |-> item, id |-> name]

\* StaticsError::HeadMismatch(loc, lhs, rhs)
HeadMismatch(l, lhs, rhs) == [kind |-> "HeadMismatch", loc |-> l, lhs |-> lhs, rhs |-> rhs]

\* util::get_ty_sym
get_ty_sym(e, name) ==
  IF name.val \in DOMAIN e.ty_env.inner
    THEN Ok(e.ty_env.inner[name.val])
    ELSE Err(Undefined("Ty", name))

\* TyRealization::default and TyRealization::insert_ty_fcn
TyRealizationDefault == EmptyMap

insert_ty_fcn(rzn, sym, ty_fcn) == MapInsert(rzn, sym, ty_fcn)

\* a type with the realization applied to it
ApplyRzn(rzn, ty) ==
  IF ty.tag = "Ctor" /\ ty.sym \in DOMAIN rzn THEN rzn[ty.sym] ELSE ty

\* whether two types unify: a variable with anything, a constructor with itself
Unifies(a, b) == a.tag = "Var" \/ b.tag = "Var" \/ a = b

\* enrich::ck: the errors it can return, none when cand enriches target under
\* rzn. The maps are iterated in an arbitrary order, so any failing component
\* can be the first one met.
RECURSIVE enrich_ck(_, _, _, _, _)
enrich_ck(l, tys, rzn, cand, target) ==
  LET strs == DOMAIN target.str_env
      tns == DOMAIN target.ty_env.inner
      vals == DOMAIN target.val_env
      tyOf(n) == ApplyRzn(rzn, tys[target.ty_env.inner[n]].ty_fcn)
      candTyOf(n) == tys[cand.ty_env.inner[n]].ty_fcn
      schemeOf(n) == ApplyRzn(rzn, target.val_env[n].ty_scheme)
  IN  {Undefined("Struct", Wrap(l, n)) : n \in strs \ DOMAIN cand.str_env}
        \cup UNION {enrich_ck(l, tys, rzn, cand.str_env[n], target.str_env[n]) :
                      n \in strs \cap DOMAIN cand.str_env}
        \cup {Undefined("Ty", Wrap(l, n)) : n \in tns \ DOMAIN cand.ty_env.inner}
        \cup {HeadMismatch(l, candTyOf(n), tyOf(n)) :
                n \in {x \in tns \cap DOMAIN cand.ty_env.inner :
                         ~Unifies(candTyOf(x), tyOf(x))}}
        \cup {Undefined("Val", Wrap(l, n)) : n \in vals \ DOMAIN cand.val_env}
        \cup {HeadMismatch(l, cand.val_env[n].ty_scheme, schemeOf(n)) :
                n \in {x \in vals \cap DOMAIN cand.val_env :
                         ~Unifies(cand.val_env[x].ty_scheme, schemeOf(x))}}

(***************************************************************************)
(* sig_match.rs                                                            *)
(***************************************************************************)
LoopBodyOwnFcn(rzn, bound_ty_sym) ==
  LET ty_name == Wrap(loc, bound_ty_sym.name)
      env_ty_sym == get_ty_sym(env, ty_name)
  IN  IF env_ty_sym.tag = "Err" THEN env_ty_sym
      ELSE Ok(insert_ty_fcn(rzn, bound_ty_sym, st_tys[bound_ty_sym].ty_fcn))

LoopBodySkipMissing(rzn, bound_ty_sym) ==
  LET ty_name == Wrap(loc, bound_ty_sym.name)
      env_ty_sym == get_ty_sym(env, ty_name)
  IN  IF env_ty_sym.tag = "Err" THEN Ok(rzn)
      ELSE Ok(insert_ty_fcn(rzn, bound_ty_sym, st_tys[env_ty_sym.val].ty_fcn))

\* ck, the body of the for loop: the realization with bound_ty_sym added, or
\* the error that `?` returns
LoopBody(rzn, bound_ty_sym) ==
  LET ty_name == Wrap(loc, bound_ty_sym.name)
      env_ty_sym == get_ty_sym(env, ty_name)
  IN  IF env_ty_sym.tag = "Err" THEN env_ty_sym
      ELSE Ok(insert_ty_fcn(rzn, bound_ty_sym, st_tys[env_ty_sym.val].ty_fcn))

RestrictFromSig(e, s) ==
  MkEnv(MapFilterKeys(s.env.str_env, DOMAIN e.str_env),
        MapFilterKeys(s.env.ty_env.inner, DOMAIN e.ty_env.inner),
        MapFilterKeys(s.env.val_env, DOMAIN e.val_env))

RestrictKeepVals(e, s) ==
  MkEnv(MapFilterKeys(e.str_env, DOMAIN s.env.str_env),
        MapFilterKeys(e.ty_env.inner, DOMAIN s.env.ty_env.inner),
        e.val_env)

\* ck, the environment it builds once enrichment has succeeded
Restrict(e, s) ==
  MkEnv(MapFilterKeys(e.str_env, DOMAIN s.env.str_env),
        MapFilterKeys(e.ty_env.inner, DOMAIN s.env.ty_env.inner),
        MapFilterKeys(e.val_env, DOMAIN s.env.val_env))

NoResult == [tag |-> "none"]

\* one iteration of the for loop over sig.ty_names
LoopStep ==
  /\ pc = "loop"
  /\ i < Len(sig.ty_names)
  /\ LET r == LoopBody(ty_rzn, sig.ty_names[i + 1])
     IN  IF r.tag = "Err"
           THEN /\ result' = Err(r.err)
                /\ pc' = "done"
                /\ UNCHANGED <<i, ty_rzn>>
           ELSE /\ ty_rzn' = r.val
                /\ i' = i + 1
                /\ UNCHANGED <<pc, result>>
  /\ UNCHANGED <<st_tys, loc, env, sig, enriched>>

EnrichUnchecked ==
  /\ pc = "loop"
  /\ i = Len(sig.ty_names)
  /\ LET errs == enrich_ck(loc, st_tys, ty_rzn, env, sig.env)
     IN  \E r \in (IF errs = {} THEN {Ok(<<>>)} ELSE {Err(e) : e \in errs}) :
           /\ enriched' = Append(enriched, [ty_rzn |-> ty_rzn, ret |-> r])
           /\ pc' = "restrict"
           /\ UNCHANGED result
  /\ UNCHANGED <<st_tys, loc, env, sig, i, ty_rzn>>

\* the call of enrich::ck after the loop, and its `?`
Enrich ==
  /\ pc = "loop"
  /\ i = Len(sig.ty_names)
  /\ LET errs == enrich_ck(loc, st_tys, ty_rzn, env, sig.env)
     IN  \E r \in (IF errs = {} THEN {Ok(<<>>)} ELSE {Err(e) : e \in errs}) :
           /\ enriched' = Append(enriched, [ty_rzn |-> ty_rzn, ret |-> r])
           /\ IF r.tag = "Err"
                THEN /\ result' = Err(r.err)
                     /\ pc' = "done"
                ELSE /\ pc' = "restrict"
                     /\ UNCHANGED result
  /\ UNCHANGED <<st_tys, loc, env, sig, i, ty_rzn>>

\* the restricted environment is built and ck returns
RestrictStep ==
  /\ pc = "restrict"
  /\ result' = [tag |-> "Ok", env |-> Restrict(env, sig), ty_rzn |-> ty_rzn]
  /\ pc' = "done"
  /\ UNCHANGED <<st_tys, loc, env, sig, i, ty_rzn, enriched>>

\* ck is entered with some state, location, candidate and signature
MatchInit ==
  /\ pc = "loop"
  /\ st_tys = Tys
  /\ loc \in Locs
  /\ env \in {MkEnv(s, t, v) : s \in CandStrEnvs, t \in CandTyEnvs, v \in CandValEnvs}
  /\ sig \in {[ty_names |-> q, env |-> MkEnv(s, t, v)] :
                q \in TyNameOrders, s \in SigStrEnvs, t \in SigTyEnvs, v \in SigValEnvs}
  /\ i = 0
  /\ ty_rzn = TyRealizationDefault
  /\ enriched = <<>>
  /\ result = NoResult
  /\ phase = "idle"
  /\ store = EmptyMap
  /\ next = 0
  /\ table = <<>>
  /\ call = NoCall
  /\ first = EmptyMap

MatchNext ==
  \/ LoopStep /\ UNCHANGED internVars
  \/ Enrich /\ UNCHANGED internVars
  \/ RestrictStep /\ UNCHANGED internVars

MatchSpec == MatchInit /\ [][MatchNext]_vars

(***************************************************************************)
(* Properties of the signature matcher.                                    *)
(***************************************************************************)
\* the positions of the bound symbols with no same-named candidate type
Missing == {k \in 1..Len(sig.ty_names) : sig.ty_names[k].name \notin DOMAIN env.ty_env.inner}

FirstMissing == CHOOSE k \in Missing : \A j \in Missing : k <= j

\* C1: when ck returns Ok, the structure, type and value names of the
\* restricted environment are exactly those of the signature's environment.
C1_RestrictedNames ==
  result.tag = "Ok" =>
    /\ DOMAIN result.env.str_env = DOMAIN sig.env.str_env
    /\ DOMAIN result.env.ty_env.inner = DOMAIN sig.env.ty_env.inner
    /\ DOMAIN result.env.val_env = DOMAIN sig.env.val_env

\* ck succeeded on a candidate with a type and a value the signature does not
\* name, the signature naming a structure and a type
C1_Witness ==
  /\ result.tag = "Ok"
  /\ DOMAIN env.ty_env.inner = {"t", "u"} /\ DOMAIN sig.env.ty_env.inner = {"t"}
  /\ "f" \in DOMAIN env.val_env /\ "f" \notin DOMAIN sig.env.val_env
  /\ "S" \in DOMAIN env.str_env /\ "S" \in DOMAIN sig.env.str_env

\* C2: when ck returns Ok, the realization's domain is sig.ty_names, it maps
\* each bound symbol to the type function st.tys holds for the candidate's
\* symbol of the same name, and it is the realization enrich::ck was called
\* with; after that call the realization does not change.
C2_Realization ==
  /\ result.tag = "Ok" =>
       /\ DOMAIN result.ty_rzn = Range(sig.ty_names)
       /\ \A b \in Range(sig.ty_names) :
            /\ b.name \in DOMAIN env.ty_env.inner
            /\ result.ty_rzn[b] = st_tys[env.ty_env.inner[b.name]].ty_fcn
       /\ Len(enriched) = 1
       /\ enriched[1].ty_rzn = result.ty_rzn
  /\ Len(enriched) > 0 => ty_rzn = enriched[1].ty_rzn

\* ck succeeded with two bound symbols, one matched by an abbreviation of int,
\* the other by a datatype
C2_Witness ==
  /\ result.tag = "Ok"
  /\ sig.ty_names = <<Bu, Bt>>
  /\ DOMAIN sig.env.ty_env.inner = {"t", "u"}
  /\ env.ty_env.inner["t"] = At /\ env.ty_env.inner["u"] = Du

\* the signature requires a value f that the candidate lacks
ValueMissing == "f" \in DOMAIN sig.env.val_env /\ "f" \notin DOMAIN env.val_env

UndefinedF == Undefined("Val", Wrap(loc, "f"))

\* C3, as claimed: whenever the signature requires a value f that the candidate
\* lacks, ck returns the undefined-value error for f.
C3_AsClaimed ==
  (pc = "done" /\ ValueMissing) => result = Err(UndefinedF)

\* C3, amended: whenever the signature requires a value f that the candidate
\* lacks, ck returns an error; it is the undefined-value error for f, at ck's
\* loc, when every bound symbol has a same-named candidate type and f is the
\* only failure of the enrichment check.
C3_MissingValueFails ==
  (pc = "done" /\ ValueMissing) =>
    /\ result.tag = "Err"
    /\ (/\ Missing = {}
        /\ enrich_ck(loc, st_tys, ty_rzn, env, sig.env) = {UndefinedF})
         => result = Err(UndefinedF)

\* ck returned the undefined-value error for f, the signature binding symbols
\* that the candidate all has
C3_Witness ==
  /\ pc = "done" /\ ValueMissing
  /\ Len(sig.ty_names) = 2 /\ Missing = {}
  /\ result = Err(UndefinedF)

\* C4: if some bound symbol has no same-named candidate type, ck returns the
\* Undefined error of the first of them in iteration order and enrich::ck is
\* never called; otherwise an error of enrich::ck is returned as it is; an
\* error comes with no environment and no realization.
C4_FailFast ==
  /\ Missing # {} => enriched = <<>>
  /\ pc = "done" =>
       /\ Missing # {} =>
            result = Err(Undefined("Ty", Wrap(loc, sig.ty_names[FirstMissing].name)))
       /\ Missing = {} =>
            /\ Len(enriched) = 1
            /\ enriched[1].ret.tag = "Err" => result = Err(enriched[1].ret.err)
            /\ enriched[1].ret.tag = "Ok" => result.tag = "Ok"
       /\ result.tag = "Err" => DOMAIN result = {"tag", "err"}

\* ck stopped at the second bound symbol, the first having been found
C4_Witness ==
  /\ pc = "done"
  /\ Len(sig.ty_names) = 2 /\ Missing = {2}
  /\ result.tag = "Err" /\ result.err.kind = "Undefined"

\* the candidate's t abbreviates int and the signature declares just an
\* abstract type t
AbstractMatch ==
  /\ sig.ty_names = <<Bt>>
  /\ sig.env = MkEnv(EmptyMap, MapInsert(EmptyMap, "t", Bt), EmptyMap)
  /\ "t" \in DOMAIN env.ty_env.inner
  /\ env.ty_env.inner["t"] = At

\* C5, as claimed: ck succeeds, the realization maps the bound t to int, and
\* the restricted environment's t does not carry the definition int.
C5_AsClaimed ==
  (pc = "done" /\ AbstractMatch) =>
    /\ result.tag = "Ok"
    /\ result.ty_rzn[Bt] = Ctor(IntSym)
    /\ st_tys[result.env.ty_env.inner["t"]].ty_fcn # Ctor(IntSym)

\* C5, amended: ck succeeds, the realization maps the bound t to int, and the
\* restricted environment's t is the candidate's own entry for t, whose type
\* function is still int.
C5_KeepsCandidateEntry ==
  (pc = "done" /\ AbstractMatch) =>
    /\ result.tag = "Ok"
    /\ result.ty_rzn[Bt] = Ctor(IntSym)
    /\ result.env.ty_env.inner["t"] = env.ty_env.inner["t"]
    /\ st_tys[result.env.ty_env.inner["t"]].ty_fcn = Ctor(IntSym)

\* ck returned for such a candidate, which has more than the signature names
C5_Witness ==
  /\ pc = "done" /\ AbstractMatch
  /\ result.tag = "Ok"
  /\ "u" \in DOMAIN env.ty_env.inner /\ "f" \in DOMAIN env.val_env

(***************************************************************************)
(* Properties of the interner.                                             *)
(***************************************************************************)
IsInsert(c) == c.op \in {"insert_str", "insert_string"}

\* C6: inserting a text that was inserted before, or a built-in name, returns
\* the handle its first insertion returned and leaves store and next as they
\* were, whatever was inserted in between.
C6_InsertIdempotent ==
  [][\A s \in Texts :
       ((InsertStr(s) \/ InsertString(s)) /\ (s \in DOMAIN first \/ s \in BuiltinTexts))
         => /\ store' = store
            /\ next' = next
            /\ s \in DOMAIN first => call'.h = first[s]]_vars

\* "x" was inserted first, two other new texts after it, and the last call
\* inserted "x" again
C6_Witness ==
  /\ IsInsert(call) /\ call.s = "x"
  /\ "x" \in DOMAIN first /\ first["x"] = FALSE_ + 1
  /\ next = FALSE_ + 4

\* C7: once finished, get(h) is s for the handle h that insert returned for s,
\* for every inserted text s; distinct texts never share a handle.
C7_RoundTrip ==
  /\ phase # "panicked"
  /\ \A s \in DOMAIN first : \A u \in DOMAIN first : first[s] = first[u] => s = u
  /\ phase = "sealed" =>
       /\ \A s \in DOMAIN first :
            ~GetPanics(table, first[s]) /\ StrStoreGet(table, first[s]) = s
       /\ call.op = "get" => \A s \in DOMAIN first : first[s] = call.h => call.s = s

\* get returned "y" from a store that also holds the empty text and a
\* built-in text inserted again
C7_Witness ==
  /\ phase = "sealed" /\ call.op = "get" /\ call.s = "y"
  /\ {"", "y", "nil"} \subseteq DOMAIN first
  /\ first[""] > first["y"]

BuiltinRefs ==
  { <<"*", STAR>>, <<"int", INT>>, <<"real", REAL>>, <<"word", WORD>>,
    <<"char", CHAR>>, <<"string", STRING_>>, <<"list", LIST>>, <<"nil", NIL>>,
    <<"::", CONS>>, <<"true", TRUE_>>, <<"false", FALSE_>> }

\* C8: in every state of a StrStoreMut, inserting a built-in name returns its
\* constant (STAR .. FALSE), and no other text holds or was given a handle in
\* 0..10.
C8_BuiltinHandles ==
  /\ \A p \in BuiltinRefs :
       /\ insert_str(store, next, p[1]).ret = p[2]
       /\ insert_string(store, next, p[1]).ret = p[2]
       /\ p[1] \in DOMAIN first => first[p[1]] = p[2]
       /\ (IsInsert(call) /\ call.s = p[1]) => call.h = p[2]
  /\ \A s \in DOMAIN store : store[s] \in STAR..FALSE_ => s \in BuiltinTexts
  /\ \A s \in DOMAIN first : first[s] \in STAR..FALSE_ => s \in BuiltinTexts
  /\ IsInsert(call) /\ call.h \in STAR..FALSE_ => call.s \in BuiltinTexts

\* "false" was inserted, by insert_string, after user texts
C8_Witness ==
  /\ call.op = "insert_string" /\ call.s = "false" /\ call.h = FALSE_
  /\ next >= FALSE_ + 3

\* C9: next is the number of stored texts, the stored handles are exactly
\* 0..next-1 with one text each, so finish writes every index exactly once and
\* in bounds, and get is defined for every handle an insert returned.
C9_DenseHandles ==
  /\ phase # "panicked"
  /\ next = Cardinality(DOMAIN store)
  /\ {store[s] : s \in DOMAIN store} = 0..(next - 1)
  /\ \A k \in 0..(next - 1) : Cardinality(FinishWriters(store, k)) = 1
  /\ ~FinishPanics(store)
  /\ \A t \in FinishTables(store) : Len(t) = next
  /\ phase = "sealed" =>
       /\ table \in FinishTables(store)
       /\ \A h \in Issued : ~GetPanics(table, h)

\* a finished store of the eleven built-in texts and three more, the empty
\* text among them
C9_Witness ==
  /\ phase = "sealed" /\ next = FALSE_ + 4 /\ "" \in DOMAIN store
  /\ call.op = "get" /\ call.h = FALSE_ + 3

\* C10: in every state of a StrStoreMut and for every text, insert_string
\* returns what insert_str returns and leaves the same store and next.
C10_SameOperation ==
  phase = "mut" =>
    \A s \in Texts \cup BuiltinTexts :
      insert_string(store, next, s) = insert_str(store, next, s)

\* insert_string has just added a new text to a store that insert calls had
\* already extended
C10_Witness ==
  /\ call.op = "insert_string" /\ call.s = "y" /\ call.h = FALSE_ + 2
  /\ next = FALSE_ + 3


====
